---- MODULE Spec2Model ----
(***************************************************************************)
(* tghtml: transform(html) rewrites arbitrary HTML into the restricted     *)
(* Telegram dialect.  Strings are sequences of one-character strings; the  *)
(* DOM delivered by the external parser is a forest of records.            *)
(***************************************************************************)
EXTENDS Integers, Sequences, FiniteSets, TLC

VARIABLES
  html,     \* transform's parameter
  body,     \* document.body as the parser builds it for html.trim()
  dom,      \* const dom of transform: Null until parseHTML has returned
  pc,       \* the position in transform: "start", "process" or "done"
  idx,      \* the loop of processHTML: the next child of dom to process
  output,   \* let output of processHTML
  visited,  \* the text nodes processNode has normalized, with their ancestry
  result,   \* the string transform returns
  failed    \* parseHTML returned null, or the catch block ran

vars == <<html, body, dom, pc, idx, output, visited, result, failed>>

(***************************************************************************)
(* Bounds of the model.                                                    *)
(***************************************************************************)
MaxNodes == 4
MaxTreeNodes == 3
MaxTextNodes == 3
MaxLen == 3
MaxAttrs == 2
MaxSiblings == 4
MaxItems == 3

(***************************************************************************)
(* Characters and string helpers.                                          *)
(***************************************************************************)
NL == "\n"
SP == " "
TAB == "\t"
Horizontal == {SP, TAB}
Whitespace == {SP, TAB, NL}
Letters == {"a", "b", "c", "d", "e", "f", "g", "h", "i", "j", "k", "l", "m",
            "n", "o", "p", "q", "r", "s", "t", "u", "v", "w", "x", "y", "z"}
Digits == {"0", "1", "2", "3", "4", "5", "6", "7", "8", "9"}

Null == [nodeType |-> 0]

Range(s) == {s[i] : i \in 1..Len(s)}

\* the concatenation of the strings ss[lo..hi], by halves
RECURSIVE CatRange(_, _, _)
CatRange(ss, lo, hi) ==
  IF lo > hi THEN <<>>
  ELSE IF lo = hi THEN ss[lo]
  ELSE LET mid == (lo + hi) \div 2
       IN CatRange(ss, lo, mid) \o CatRange(ss, mid + 1, hi)

Cat(ss) == CatRange(ss, 1, Len(ss))

includes(s, c) == c \in Range(s)

startsWith(s, p) == Len(s) >= Len(p) /\ SubSeq(s, 1, Len(p)) = p

\* String.prototype.trim
trim(s) ==
  LET nonWs == {i \in 1..Len(s) : s[i] \notin Whitespace}
  IN IF nonWs = {} THEN <<>>
     ELSE LET lo == CHOOSE i \in nonWs : \A j \in nonWs : i <= j
              hi == CHOOSE i \in nonWs : \A j \in nonWs : i >= j
          IN SubSeq(s, lo, hi)

\* s with the characters at the positions in drop removed
Without(s, drop) ==
  Cat([i \in 1..Len(s) |-> IF i \in drop THEN <<>> ELSE <<s[i]>>])

\* i lies in a maximal run of characters of set that directly follows a c
RunFollows(s, i, set, c) ==
  /\ s[i] \in set
  /\ \E k \in 1..(i - 1) : s[k] = c /\ \A j \in (k + 1)..i : s[j] \in set

\* i lies in a maximal run of characters of set that is directly followed by a c
RunPrecedes(s, i, set, c) ==
  /\ s[i] \in set
  /\ \E k \in (i + 1)..Len(s) : s[k] = c /\ \A j \in i..(k - 1) : s[j] \in set

\* replace(/[set]+/g, c): every maximal run of characters of set becomes one c
collapseRuns(s, set, c) ==
  Cat([i \in 1..Len(s) |->
         IF s[i] \in set
         THEN IF i > 1 /\ s[i - 1] \in set THEN <<>> ELSE <<c>>
         ELSE <<s[i]>>])

\* replace(/\n[set]+/g, '\n')
dropRunsAfterNewline(s, set) ==
  Without(s, {i \in 1..Len(s) : RunFollows(s, i, set, NL)})

\* replace(/[set]+\n/g, '\n')
dropRunsBeforeNewline(s, set) ==
  Without(s, {i \in 1..Len(s) : RunPrecedes(s, i, set, NL)})

\* replace(/\n{3,}/g, '\n\n')
capNewlines(s) ==
  Without(s, {i \in 1..Len(s) : i > 2 /\ s[i] = NL /\ s[i - 1] = NL /\ s[i - 2] = NL})

\* replace(/c/g, r) for a one-character pattern c and a replacement string r
replaceChar(s, c, r) ==
  Cat([i \in 1..Len(s) |-> IF s[i] = c THEN r ELSE <<s[i]>>])

(***************************************************************************)
(* Tag and attribute names, spelled as the character strings the code      *)
(* compares and emits.  tagName holds element.tagName.toLowerCase().       *)
(***************************************************************************)
T_b == <<"b">>
T_strong == <<"s", "t", "r", "o", "n", "g">>
T_i == <<"i">>
T_em == <<"e", "m">>
T_u == <<"u">>
T_ins == <<"i", "n", "s">>
T_s == <<"s">>
T_strike == <<"s", "t", "r", "i", "k", "e">>
T_del == <<"d", "e", "l">>
T_span == <<"s", "p", "a", "n">>
T_tg_spoiler == <<"t", "g", "-", "s", "p", "o", "i", "l", "e", "r">>
T_a == <<"a">>
T_code == <<"c", "o", "d", "e">>
T_pre == <<"p", "r", "e">>
T_blockquote == <<"b", "l", "o", "c", "k", "q", "u", "o", "t", "e">>
T_tg_emoji == <<"t", "g", "-", "e", "m", "o", "j", "i">>
T_h1 == <<"h", "1">>
T_h2 == <<"h", "2">>
T_h3 == <<"h", "3">>
T_h4 == <<"h", "4">>
T_h5 == <<"h", "5">>
T_h6 == <<"h", "6">>
T_ul == <<"u", "l">>
T_ol == <<"o", "l">>
T_li == <<"l", "i">>
T_div == <<"d", "i", "v">>
T_p == <<"p">>
T_section == <<"s", "e", "c", "t", "i", "o", "n">>
T_article == <<"a", "r", "t", "i", "c", "l", "e">>
T_header == <<"h", "e", "a", "d", "e", "r">>
T_footer == <<"f", "o", "o", "t", "e", "r">>
T_br == <<"b", "r">>
T_spoiler == <<"s", "p", "o", "i", "l", "e", "r">>
T_body == <<"b", "o", "d", "y">>
N_href == <<"h", "r", "e", "f">>
N_class == <<"c", "l", "a", "s", "s">>
N_expandable == <<"e", "x", "p", "a", "n", "d", "a", "b", "l", "e">>
N_emoji_id == <<"e", "m", "o", "j", "i", "-", "i", "d">>
N_id == <<"i", "d">>

HTTP == <<"h", "t", "t", "p", ":", "/", "/">>
HTTPS == <<"h", "t", "t", "p", "s", ":", "/", "/">>
TG == <<"t", "g", ":", "/", "/">>
TG_SPOILER_CLASS == <<"t", "g", "-", "s", "p", "o", "i", "l", "e", "r">>
\* U+2022 BULLET, one character of the output, followed by a space
BULLET == <<"U+2022", " ">>
AMP == <<"&", "a", "m", "p", ";">>
LT == <<"&", "l", "t", ";">>
GT == <<"&", "g", "t", ";">>
QUOT == <<"&", "q", "u", "o", "t", ";">>

(***************************************************************************)
(* Tag/attribute policy.                                                   *)
(***************************************************************************)
\* mutant: the custom spoiler tag is listed among the tags that pass through
allowedTagsWithSpoiler ==
  {T_b, T_strong, T_i, T_em, T_u, T_ins, T_s, T_strike, T_del, T_span,
   T_tg_spoiler, T_a, T_code, T_pre, T_blockquote, T_tg_emoji, T_spoiler}

TELEGRAM_ALLOWED_TAGS ==
  {T_b, T_strong, T_i, T_em, T_u, T_ins, T_s, T_strike, T_del, T_span,
   T_tg_spoiler, T_a, T_code, T_pre, T_blockquote, T_tg_emoji}

\* TELEGRAM_ALLOWED_ATTRIBUTES[tagName] || []
TELEGRAM_ALLOWED_ATTRIBUTES(tagName) ==
  IF tagName = T_a THEN {N_href}
  ELSE IF tagName = T_span THEN {N_class}
  ELSE IF tagName = T_blockquote THEN {N_expandable}
  ELSE IF tagName = T_code THEN {N_class}
  ELSE IF tagName = T_tg_emoji THEN {N_emoji_id}
  ELSE {}

(***************************************************************************)
(* DOM nodes as the parser delivers them.                                  *)
(***************************************************************************)
Text(t) == [nodeType |-> 3, textContent |-> t]

Element(tag, attrs, kids) ==
  [nodeType |-> 1, tagName |-> tag, attributes |-> attrs, childNodes |-> kids]

Attr(n, v) == [name |-> n, value |-> v]

\* element.getAttribute(name): the value, or Null when the attribute is absent
getAttribute(element, name) ==
  LET at == {i \in 1..Len(element.attributes) : element.attributes[i].name = name}
  IN IF at = {} THEN Null
     ELSE [nodeType |-> 2,
           value |-> element.attributes[CHOOSE i \in at : \A j \in at : i <= j].value]

(***************************************************************************)
(* Fallback sanitizer.                                                     *)
(***************************************************************************)
\* mutant: the ampersand is escaped last, so the entities written for the
\* other characters are escaped again
sanitizeAmpersandLast(text) ==
  replaceChar(replaceChar(replaceChar(replaceChar(text, "<", LT), ">", GT), "\"", QUOT),
              "&", AMP)

sanitizeTextOnly(text) ==
  replaceChar(replaceChar(replaceChar(replaceChar(text, "&", AMP), "<", LT), ">", GT),
              "\"", QUOT)

(***************************************************************************)
(* Whitespace normalizer: the text-node branch of processNode.             *)
(***************************************************************************)
normalizeQuote(text) ==
  capNewlines(
    dropRunsBeforeNewline(
      dropRunsAfterNewline(collapseRuns(text, Horizontal, SP), Horizontal),
      Horizontal))

\* mutant: flow mode collapses spaces and tabs only and keeps newlines
normalizeFlowHorizontal(text) == collapseRuns(text, Horizontal, SP)

normalizeFlow(text) == collapseRuns(text, Whitespace, SP)

\* mutant: the parent's tag name is compared without toLowerCase()
isInBlockquoteUpperCase(parentTag) ==
  parentTag = <<"B", "L", "O", "C", "K", "Q", "U", "O", "T", "E">>

isInBlockquote(parentTag) == parentTag = T_blockquote

\* mutant: text whose parent is a pre or code element is left as it is
processTextPreformatted(text, parentTag) ==
  IF parentTag \in {T_pre, T_code} THEN text
  ELSE IF isInBlockquote(parentTag) THEN normalizeQuote(text) ELSE normalizeFlow(text)

processText(text, parentTag) ==
  IF isInBlockquote(parentTag) THEN normalizeQuote(text) ELSE normalizeFlow(text)

(***************************************************************************)
(* Tree rewriter.                                                          *)
(***************************************************************************)
\* mutant: the tg:// scheme is not recognized
hrefValueWithoutTg(href) ==
  IF href # <<>> /\ ~startsWith(href, HTTP) /\ ~startsWith(href, HTTPS)
  THEN HTTPS \o href
  ELSE href

hrefValue(href) ==
  IF href # <<>> /\ ~startsWith(href, HTTP) /\ ~startsWith(href, HTTPS)
     /\ ~startsWith(href, TG)
  THEN HTTPS \o href
  ELSE href

\* mutant: expandable is written with the value it has in the source
formatAttributeVerbatim(tagName, attr) ==
  IF attr.name \notin TELEGRAM_ALLOWED_ATTRIBUTES(tagName) THEN <<>>
  ELSE IF tagName = T_a /\ attr.name = N_href
       THEN <<" ">> \o N_href \o <<"=", "\"">> \o hrefValue(attr.value) \o <<"\"">>
  ELSE <<" ">> \o attr.name \o <<"=", "\"">> \o attr.value \o <<"\"">>

\* one iteration of the attribute loop of formatAllowedTag
formatAttribute(tagName, attr) ==
  IF attr.name \notin TELEGRAM_ALLOWED_ATTRIBUTES(tagName) THEN <<>>
  ELSE IF tagName = T_a /\ attr.name = N_href
       THEN <<" ">> \o N_href \o <<"=", "\"">> \o hrefValue(attr.value) \o <<"\"">>
  ELSE IF tagName = T_blockquote /\ attr.name = N_expandable
       THEN <<" ">> \o N_expandable \o <<"=", "\"", "\"">>
  ELSE <<" ">> \o attr.name \o <<"=", "\"">> \o attr.value \o <<"\"">>

openTag(tagName, element) ==
  <<"<">> \o tagName
  \o Cat([i \in 1..Len(element.attributes) |->
            formatAttribute(tagName, element.attributes[i])])
  \o <<">">>

closeTag(tagName) == <<"<", "/">> \o tagName \o <<">">>

\* mutant: a span is kept when its class value begins with the spoiler class
formatAllowedTagPrefix(tagName, content, element) ==
  IF tagName = T_span
     /\ (getAttribute(element, N_class) = Null
         \/ ~startsWith(getAttribute(element, N_class).value, TG_SPOILER_CLASS))
  THEN content
  ELSE openTag(tagName, element) \o content \o closeTag(tagName)

formatAllowedTag(tagName, content, element) ==
  IF tagName = T_span /\ getAttribute(element, N_class) # [nodeType |-> 2, value |-> TG_SPOILER_CLASS]
  THEN content
  ELSE openTag(tagName, element) \o content \o closeTag(tagName)

RECURSIVE processNode(_, _)
RECURSIVE formatListItems(_)
RECURSIVE formatElement(_, _, _)

\* the concatenated rewriting of the children of element
childContent(element) ==
  Cat([i \in 1..Len(element.childNodes) |->
         processNode(element.childNodes[i], element.tagName)])

listItem(node) ==
  IF node.nodeType = 1 /\ node.tagName = T_li
  THEN <<BULLET \o trim(childContent(node))>>
  ELSE <<>>

\* mutant: every item is followed by a newline of its own
formatListItemsNewlineEach(listContainer) ==
  Cat([i \in 1..Len(listContainer.childNodes) |->
         Cat([k \in 1..Len(listItem(listContainer.childNodes[i])) |->
                listItem(listContainer.childNodes[i])[k] \o <<NL>>])])

formatListItems(listContainer) ==
  LET items == Cat([i \in 1..Len(listContainer.childNodes) |->
                      listItem(listContainer.childNodes[i])])
      F[i \in 0..Len(items)] ==
        IF i = 0 THEN <<>>
        ELSE IF F[i - 1] # <<>> THEN F[i - 1] \o <<NL>> \o items[i]
             ELSE F[i - 1] \o items[i]
  IN F[Len(items)]

formatElement(tagName, content, element) ==
  IF tagName = T_h1
  THEN <<"<", "b", ">", "<", "u", ">">> \o content
       \o <<"<", "/", "u", ">", "<", "/", "b", ">", NL, NL>>
  ELSE IF tagName \in {T_h2, T_h3, T_h4, T_h5, T_h6}
  THEN <<"<", "b", ">">> \o content \o <<"<", "/", "b", ">", NL, NL>>
  ELSE IF tagName = T_ul \/ tagName = T_ol
  THEN formatListItems(element) \o <<NL, NL>>
  ELSE IF tagName = T_li
  THEN BULLET \o content
  ELSE IF tagName \in {T_div, T_p, T_section, T_article, T_header, T_footer}
  THEN content \o <<NL, NL>>
  ELSE IF tagName = T_blockquote
  THEN formatAllowedTag(tagName, content, element) \o <<NL>>
  ELSE IF tagName \in {T_br}
  THEN <<NL>>
  ELSE IF tagName \in TELEGRAM_ALLOWED_TAGS
  THEN formatAllowedTag(tagName, content, element)
  ELSE IF tagName = T_spoiler
  THEN <<"<">> \o T_tg_spoiler \o <<">">> \o content \o closeTag(T_tg_spoiler)
  ELSE content

processNode(node, parentTag) ==
  IF node.nodeType = 3 THEN processText(node.textContent, parentTag)
  ELSE IF node.nodeType # 1 THEN <<>>
  ELSE formatElement(node.tagName, trim(childContent(node)), node)

\* mutant: the clean-up caps the newline runs and leaves the spaces
cleanUpCapOnly(out) == capNewlines(out)

\* the clean-up at the end of processHTML
cleanUp(out) == dropRunsAfterNewline(capNewlines(out), {SP})

(***************************************************************************)
(* The external parser.  An input is written as a source forest: a text    *)
(* node holds source items, each a literal character or one of the four    *)
(* named entities; Html is the markup of the forest and Dom the tree the   *)
(* HTML parser builds from that markup.                                    *)
(***************************************************************************)
decodeItem(c) ==
  IF c = "&lt;" THEN "<" ELSE IF c = "&gt;" THEN ">" ELSE IF c = "&amp;" THEN "&"
  ELSE IF c = "&quot;" THEN "\"" ELSE c

itemMarkup(c) ==
  IF c = "&lt;" THEN LT ELSE IF c = "&gt;" THEN GT ELSE IF c = "&amp;" THEN AMP
  ELSE IF c = "&quot;" THEN QUOT ELSE <<c>>

decodeText(items) == [i \in 1..Len(items) |-> decodeItem(items[i])]

textMarkup(items) == Cat([i \in 1..Len(items) |-> itemMarkup(items[i])])

attrMarkup(attr) ==
  LET q == IF includes(attr.value, "\"") THEN "'" ELSE "\""
  IN <<" ">> \o attr.name \o <<"=", q>> \o attr.value \o <<q>>

VoidTags == {T_br}

RECURSIVE Html(_)
Html(forest) ==
  Cat([i \in 1..Len(forest) |->
         LET n == forest[i]
         IN IF n.nodeType = 3 THEN textMarkup(n.textContent)
            ELSE <<"<">> \o n.tagName
                 \o Cat([k \in 1..Len(n.attributes) |-> attrMarkup(n.attributes[k])])
                 \o <<">">>
                 \o (IF n.tagName \in VoidTags THEN <<>>
                     ELSE Html(n.childNodes) \o closeTag(n.tagName))])

RECURSIVE Dom(_)
Dom(forest) ==
  [i \in 1..Len(forest) |->
     LET n == forest[i]
     IN IF n.nodeType = 3 THEN Text(decodeText(n.textContent))
        ELSE Element(n.tagName, n.attributes, Dom(n.childNodes))]

\* a literal "<" starts a tag when a letter, "/", "!" or "?" follows, and a
\* literal "&" starts a character reference when a letter or "#" follows
LiteralText(items) ==
  \A i \in 1..Len(items) :
    /\ items[i] = "<" =>
         (i < Len(items) => items[i + 1] \notin Letters \cup {"/", "!", "?"})
    /\ items[i] = "&" =>
         (i < Len(items) => items[i + 1] \notin Letters \cup {"#"})

\* elements whose start tag closes an open p element
ClosesP ==
  {T_p, T_div, T_ul, T_ol, T_li, T_blockquote, T_pre, T_section, T_article,
   T_header, T_footer, T_h1, T_h2, T_h3, T_h4, T_h5, T_h6}

Headings == {T_h1, T_h2, T_h3, T_h4, T_h5, T_h6}

\* the tree-construction rules that decide whether the parser returns this
\* forest for Html(forest): open is the stack of open elements above it
RECURSIVE WellNested(_, _)
WellNested(forest, open) ==
  \A i \in 1..Len(forest) :
    LET n == forest[i]
        parent == IF open = <<>> THEN T_body ELSE open[Len(open)]
    IN IF n.nodeType = 3
       THEN /\ n.textContent # <<>>
            /\ LiteralText(n.textContent)
            /\ i > 1 => forest[i - 1].nodeType # 3
            /\ (parent = T_pre /\ i = 1) => n.textContent[1] # NL
       ELSE /\ n.tagName \in ClosesP => T_p \notin Range(open)
            /\ n.tagName \in Headings => parent \notin Headings
            /\ n.tagName = T_a => T_a \notin Range(open)
            /\ n.tagName = T_li =>
                 \A k \in 1..Len(open) :
                   open[k] = T_li =>
                     \E j \in (k + 1)..Len(open) : open[j] \in {T_ul, T_ol}
            /\ n.tagName \in VoidTags => n.childNodes = <<>>
            /\ \A a, b \in 1..Len(n.attributes) :
                 n.attributes[a].name = n.attributes[b].name => a = b
            /\ WellNested(n.childNodes, Append(open, n.tagName))

hasMarkup(s) == includes(s, "<") /\ includes(s, ">")

\* transform parses html.trim(): markup handed to the parser neither starts
\* nor ends with whitespace, so its first and last text nodes are not padded
Parsable(forest) ==
  /\ WellNested(forest, <<>>)
  /\ hasMarkup(Html(forest)) => Html(forest) = trim(Html(forest))

\* document.body of the document the parser builds around the markup
bodyOf(forest) == Element(T_body, <<>>, Dom(forest))

\* an input string and the body the parser returns for it; padding is
\* whitespace around the markup, which transform trims before parsing
Input(forest, padding) ==
  [html |-> padding \o Html(forest) \o padding, body |-> bodyOf(forest)]

(***************************************************************************)
(* Bounded input families.                                                 *)
(***************************************************************************)
RECURSIVE ForestsExact(_, _)
NodesExact(L, k) ==
  (IF k = 1 THEN {Text(t) : t \in L.texts} ELSE {})
  \cup {Element(e.tagName, e.attributes, kids) :
          e \in L.elems, kids \in ForestsExact(L, k - 1)}

ForestsExact(L, n) ==
  IF n = 0 THEN {<<>>}
  ELSE {f \in UNION {{<<nd>> \o rest :
                        nd \in NodesExact(L, k), rest \in ForestsExact(L, n - k)} :
                       k \in 1..n} :
          WellNested(f, <<>>)}

Forests(L, n) == {f \in UNION {ForestsExact(L, k) : k \in 0..n} : Parsable(f)}

Plain(tag) == [tagName |-> tag, attributes |-> <<>>]

Strings(alphabet, n) == UNION {[1..k -> alphabet] : k \in 0..n}

\* block spacing: text, paragraphs and quotes side by side
SpacingLabels ==
  [texts |-> {<<"a">>, <<SP>>},
   elems |-> {Plain(T_p), Plain(T_blockquote)}]

SpacingInputs(n) == {Input(f, <<>>) : f \in Forests(SpacingLabels, n)}

\* nesting: quotes, inline tags, list containers and preformatted text
NestingLabels ==
  [texts |-> {<<"a">>, <<"a", NL, "b">>},
   elems |-> {Plain(T_blockquote), Plain(T_i), Plain(T_ul), Plain(T_pre)}]

NestingInputs(n) == {Input(f, <<>>) : f \in Forests(NestingLabels, n)}

\* text that looks like markup: entities and stray angle brackets, and
\* strings without markup
TextLabels ==
  [texts |-> {<<"&lt;", "x", "&gt;">>, <<"<", "1", ">">>, <<"a", "<", "5">>},
   elems |-> {Plain(T_b), Plain(T_div)}]

PlainAlphabet == {"a", SP, NL, "&", "\"", "<"}

PlainStrings(len) == Strings(PlainAlphabet, len) \cup {<<">">>, <<"a", ">", "&">>}

TextInputs(n, len) ==
  {Input(f, pad) : f \in Forests(TextLabels, n), pad \in {<<>>, <<SP>>}}
  \cup {[html |-> s, body |-> bodyOf(<<Text(s)>>)] : s \in PlainStrings(len)}

\* attributes: allow-listed and other names, href schemes, a value with a quote
HrefValues ==
  {<<>>, <<"x">>, HTTP \o <<"x">>, HTTPS \o <<"x">>, TG \o <<"x">>,
   <<"H", "t", "t", "p", ":", "/", "/", "x">>, <<"f", "t", "p", ":", "/", "/", "x">>,
   <<"x", "\"", " ", "i", "d", "=", "\"", "y">>}

AttrPool ==
  {Attr(N_href, v) : v \in HrefValues}
  \cup {Attr(N_class, TG_SPOILER_CLASS), Attr(N_class, <<"c">>),
        Attr(N_expandable, <<>>), Attr(N_expandable, <<"1">>),
        Attr(N_emoji_id, <<"5">>), Attr(N_id, <<"y">>)}

AttrLists(n) == UNION {[1..k -> AttrPool] : k \in 0..n}

AttrTags == {T_a, T_span, T_blockquote, T_code, T_tg_emoji, T_b}

AttrForests(n) ==
  {f \in {<<Element(t, al, <<Text(<<"t">>)>>)>> : t \in AttrTags, al \in AttrLists(n)}
         \cup {<<>>, <<Text(<<"t">>)>>} :
     Parsable(f)}

AttrInputs(n) == {Input(f, <<>>) : f \in AttrForests(n)}

\* spoilers and spans: the custom spoiler tag with attributes of its own, and
\* spans with the spoiler class, with a longer class value and without class
InlineLabels ==
  [texts |-> {<<"a">>, <<SP, "a">>},
   elems |-> {[tagName |-> T_spoiler,
               attributes |-> <<Attr(N_class, <<"c">>), Attr(N_href, <<"x">>)>>],
              [tagName |-> T_span,
               attributes |-> <<Attr(N_id, <<"y">>), Attr(N_class, TG_SPOILER_CLASS)>>],
              [tagName |-> T_span,
               attributes |-> <<Attr(N_class, TG_SPOILER_CLASS \o <<SP, "c">>)>>],
              Plain(T_span)}]

InlineInputs(n) == {Input(f, <<>>) : f \in Forests(InlineLabels, n)}

\* sibling sequences over a pool of nodes, as far as the parser returns them
Siblings(pool, n) == {f \in UNION {[1..k -> pool] : k \in 0..n} : Parsable(f)}

\* blocks side by side: paragraphs with and without content, headings, a
\* division that holds a heading and a paragraph, and whitespace between tags
BlockPool ==
  {Text(<<SP>>),
   Element(T_p, <<>>, <<Text(<<"a">>)>>),
   Element(T_p, <<>>, <<>>),
   Element(T_h1, <<>>, <<Text(<<"a">>)>>),
   Element(T_h2, <<>>, <<Text(<<"a">>)>>),
   Element(T_div, <<>>, <<Element(T_h1, <<>>, <<Text(<<"a">>)>>),
                          Element(T_p, <<>>, <<Text(<<"a">>)>>)>>)}

BlockInputs(n) ==
  {Input(f, <<>>) : f \in Siblings(BlockPool, n) \cup {<<Text(<<"a">>)>>}}

\* list items: with content, empty, with padded content, with a nested list;
\* whitespace between the items and an inline element that is no item
ListPool ==
  {Text(<<SP>>),
   Element(T_li, <<>>, <<Text(<<"a">>)>>),
   Element(T_li, <<>>, <<>>),
   Element(T_li, <<>>, <<Text(<<SP, "b", SP>>)>>),
   Element(T_li, <<>>, <<Text(<<"a">>),
                         Element(T_ul, <<>>, <<Element(T_li, <<>>, <<Text(<<"b">>)>>)>>)>>),
   Element(T_i, <<>>, <<Text(<<"a">>)>>)}

\* the children of a list container: whitespace may come first and last
ListKids(n) == {f \in UNION {[1..k -> ListPool] : k \in 0..n} : WellNested(f, <<>>)}

\* the items inside a ul, inside an ol, and bare
ListForests(n) ==
  {f \in UNION {{<<Element(T_ul, <<>>, kids)>>, <<Element(T_ol, <<>>, kids)>>, kids} :
                  kids \in ListKids(n)} \cup {<<Text(<<"a">>)>>} :
     Parsable(f)}

ListInputs(n) == {Input(f, <<>>) : f \in ListForests(n)}

\* lines of a quote: text with a space before or after it, and line breaks
QuoteLabels ==
  [texts |-> {<<"a">>, <<"a", SP>>, <<SP, "a">>},
   elems |-> {Plain(T_blockquote), Plain(T_br)}]

QuoteInputs(n) == {Input(f, <<>>) : f \in Forests(QuoteLabels, n)}

\* flow text around and inside kept inline tags: text that begins with a
\* space and text that ends with a run of whitespace
FlowLabels ==
  [texts |-> {<<"a">>, <<SP, "a">>, <<"a", NL, SP>>},
   elems |-> {Plain(T_b), Plain(T_i)}]

FlowInputs(n) == {Input(f, <<>>) : f \in Forests(FlowLabels, n)}

\* quotes with inline children: text with a line break, bare and padded
NestedQuoteLabels ==
  [texts |-> {<<"a", NL, "b">>, <<SP, "a", NL, SP, "b", SP>>},
   elems |-> {Plain(T_blockquote), Plain(T_i)}]

NestedQuoteInputs(n) == {Input(f, <<>>) : f \in Forests(NestedQuoteLabels, n)}

\* preformatted text: lines with indentation inside pre and code elements
PreLabels ==
  [texts |-> {<<"a", NL, SP, SP, "b">>, <<SP, "a", NL>>},
   elems |-> {Plain(T_pre), Plain(T_code)}]

PreInputs(n) == {Input(f, <<>>) : f \in Forests(PreLabels, n)}

(***************************************************************************)
(* The text nodes the walk normalizes, with their ancestry.                *)
(***************************************************************************)
RECURSIVE textVisits(_, _, _)
textVisits(node, parentTag, inQuote) ==
  IF node.nodeType = 3
  THEN {[text |-> node.textContent, parent |-> parentTag, inQuote |-> inQuote,
         out |-> processNode(node, parentTag)]}
  ELSE IF node.nodeType # 1 THEN {}
  ELSE UNION {textVisits(node.childNodes[i], node.tagName,
                         inQuote \/ node.tagName = T_blockquote) :
                i \in 1..Len(node.childNodes)}

(***************************************************************************)
(* The elements the walk rewrites, with what processNode returns for each. *)
(***************************************************************************)
RECURSIVE elementVisits(_, _)
elementVisits(node, parentTag) ==
  IF node.nodeType # 1 THEN {}
  ELSE {[element |-> node, parent |-> parentTag, out |-> processNode(node, parentTag)]}
       \cup UNION {elementVisits(node.childNodes[i], node.tagName) :
                     i \in 1..Len(node.childNodes)}

(***************************************************************************)
(* The calls of processNode that one call on a node makes, itself          *)
(* included: one for each child in the loop of processNode and, for a ul   *)
(* or ol, one more for each child of each li in formatListItems.           *)
(***************************************************************************)
RECURSIVE Sum(_, _)
Sum(f, n) == IF n = 0 THEN 0 ELSE f[n] + Sum(f, n - 1)

RECURSIVE processCalls(_)
processCalls(node) ==
  IF node.nodeType # 1 THEN 1
  ELSE LET kids == node.childNodes
           inChildLoop == [i \in 1..Len(kids) |-> processCalls(kids[i])]
           inList == [i \in 1..Len(kids) |->
                        IF node.tagName \in {T_ul, T_ol}
                           /\ kids[i].nodeType = 1 /\ kids[i].tagName = T_li
                        THEN Sum([k \in 1..Len(kids[i].childNodes) |->
                                    processCalls(kids[i].childNodes[k])],
                                 Len(kids[i].childNodes))
                        ELSE 0]
       IN 1 + Sum(inChildLoop, Len(kids)) + Sum(inList, Len(kids))

(***************************************************************************)
(* transform(html) as a state machine.                                     *)
(***************************************************************************)
Start(inputs) ==
  \E in \in inputs :
    /\ html = in.html
    /\ body = in.body
    /\ dom = Null
    /\ pc = "start"
    /\ idx = 1
    /\ output = <<>>
    /\ visited = {}
    /\ result = <<>>
    /\ failed = FALSE

Init == Start(NestingInputs(MaxTreeNodes))

InitSpacing == Start(SpacingInputs(MaxNodes))

InitText == Start(TextInputs(MaxTextNodes, MaxLen))

InitAttrs == Start(AttrInputs(MaxAttrs))

InitInline == Start(InlineInputs(MaxTreeNodes))

InitBlocks == Start(BlockInputs(MaxSiblings))

InitLists == Start(ListInputs(MaxItems))

InitQuote == Start(QuoteInputs(MaxNodes))

InitFlow == Start(FlowInputs(MaxTreeNodes))

InitNested == Start(NestedQuoteInputs(MaxNodes))

InitPre == Start(PreInputs(MaxTreeNodes))

isEmpty == trim(html) = <<>>

isPlain == ~includes(html, "<") \/ ~includes(html, ">")

\* if (!html.trim()) return ""
returnsEmpty == pc = "start" /\ isEmpty

ReturnEmpty ==
  /\ returnsEmpty
  /\ result' = <<>>
  /\ pc' = "done"
  /\ UNCHANGED <<html, body, dom, idx, output, visited, failed>>

\* if (!html.includes("<") || !html.includes(">")) return sanitizeTextOnly(html)
returnsPlain == pc = "start" /\ ~isEmpty /\ isPlain

ReturnPlain ==
  /\ returnsPlain
  /\ result' = sanitizeTextOnly(html)
  /\ pc' = "done"
  /\ UNCHANGED <<html, body, dom, idx, output, visited, failed>>

\* const dom = parseHTML(html.trim()), with a document body
parses == pc = "start" /\ ~isEmpty /\ ~isPlain

Parse ==
  /\ parses
  /\ dom' = body
  /\ pc' = "process"
  /\ UNCHANGED <<html, body, idx, output, visited, result, failed>>

\* parseHTML returns null: if (!dom) return sanitizeTextOnly(html)
ParseNull ==
  /\ parses
  /\ result' = sanitizeTextOnly(html)
  /\ failed' = TRUE
  /\ pc' = "done"
  /\ UNCHANGED <<html, body, dom, idx, output, visited>>

\* one iteration of the loop of processHTML
inLoop == pc = "process" /\ idx <= Len(dom.childNodes)

ProcessChild ==
  /\ inLoop
  /\ output' = output \o processNode(dom.childNodes[idx], dom.tagName)
  /\ visited' = visited \cup textVisits(dom.childNodes[idx], dom.tagName, FALSE)
  /\ idx' = idx + 1
  /\ UNCHANGED <<html, body, dom, pc, result, failed>>

\* the end of processHTML and return result.trim()
pastLoop == pc = "process" /\ idx > Len(dom.childNodes)

Finish ==
  /\ pastLoop
  /\ result' = trim(cleanUp(output))
  /\ pc' = "done"
  /\ UNCHANGED <<html, body, dom, idx, output, visited, failed>>

\* mutant: the catch block returns the output assembled so far
caughtPartial == output

\* the value the catch block returns
caught == sanitizeTextOnly(html)

\* a step of the parser or of the walk raises: catch (error) { return
\* sanitizeTextOnly(html) }
Catch ==
  /\ parses \/ pc = "process"
  /\ result' = caught
  /\ failed' = TRUE
  /\ pc' = "done"
  /\ UNCHANGED <<html, body, dom, idx, output, visited>>

Next ==
  \/ ReturnEmpty
  \/ ReturnPlain
  \/ Parse
  \/ ParseNull
  \/ ProcessChild
  \/ Finish
  \/ Catch

Spec == Init /\ [][Next]_vars

SpecSpacing == InitSpacing /\ [][Next]_vars

SpecText == InitText /\ [][Next]_vars

SpecAttrs == InitAttrs /\ [][Next]_vars

SpecInline == InitInline /\ [][Next]_vars

SpecBlocks == InitBlocks /\ [][Next]_vars

SpecLists == InitLists /\ [][Next]_vars

SpecQuote == InitQuote /\ [][Next]_vars

SpecFlow == InitFlow /\ [][Next]_vars

SpecNested == InitNested /\ [][Next]_vars

SpecPre == InitPre /\ [][Next]_vars

(***************************************************************************)
(* Reading the output back.                                                *)
(***************************************************************************)
Min(S) == CHOOSE x \in S : \A y \in S : x <= y

done == pc = "done"

\* transform returned the rewriting of the parsed tree
rewritten == pc = "done" /\ dom # Null /\ ~failed

hasTripleNewline(s) ==
  \E i \in 1..(Len(s) - 2) : s[i] = NL /\ s[i + 1] = NL /\ s[i + 2] = NL

\* the non-whitespace characters of the text nodes of a forest, in document order
RECURSIVE textChars(_)
textChars(forest) ==
  Cat([i \in 1..Len(forest) |->
         IF forest[i].nodeType = 3
         THEN SelectSeq(forest[i].textContent, LAMBDA c : c \notin Whitespace)
         ELSE IF forest[i].nodeType = 1 THEN textChars(forest[i].childNodes)
         ELSE <<>>])

\* a[k..] occurs in b[p..] as a subsequence
RECURSIVE occursFrom(_, _, _, _)
occursFrom(a, k, b, p) ==
  IF k > Len(a) THEN TRUE
  ELSE LET at == {q \in p..Len(b) : b[q] = a[k]}
       IN at # {} /\ occursFrom(a, k + 1, b, Min(at) + 1)

isSubsequence(a, b) == occursFrom(a, 1, b, 1)

\* the end of the name that starts at position j of s
nameEnd(s, j) ==
  Min({q \in j..(Len(s) + 1) : q = Len(s) + 1 \/ s[q] \in Whitespace \cup {"/", ">", "="}})

\* the names of the tags, opening and closing, that a reader of s finds
tagNames(s) ==
  {SubSeq(s, i + 1, nameEnd(s, i + 1) - 1) :
     i \in {k \in 1..(Len(s) - 1) : s[k] = "<" /\ s[k + 1] \in Letters}}
  \cup {SubSeq(s, i + 2, nameEnd(s, i + 2) - 1) :
          i \in {k \in 1..(Len(s) - 2) : s[k] = "<" /\ s[k + 1] = "/" /\ s[k + 2] \in Letters}}

\* the attribute names a reader finds in the tag of s from position p on
RECURSIVE attrNamesFrom(_, _)
attrNamesFrom(s, p) ==
  IF p > Len(s) \/ s[p] = ">" THEN <<>>
  ELSE IF s[p] \in Whitespace THEN attrNamesFrom(s, p + 1)
  ELSE LET e == nameEnd(s, p)
           name == SubSeq(s, p, e - 1)
       IN IF e < Len(s) /\ s[e] = "=" /\ s[e + 1] = "\""
          THEN LET close == Min({q \in (e + 2)..(Len(s) + 1) :
                                   q = Len(s) + 1 \/ s[q] = "\""})
               IN <<name>> \o attrNamesFrom(s, close + 1)
          ELSE <<name>> \o attrNamesFrom(s, e + 1)

\* the attribute names of the first tag of s
firstTagAttrNames(s) ==
  IF Len(s) > 1 /\ s[1] = "<" THEN attrNamesFrom(s, nameEnd(s, 2)) ELSE <<>>

\* the escape of one character by the fallback sanitizer
escapeChar(c) ==
  IF c = "&" THEN AMP ELSE IF c = "<" THEN LT ELSE IF c = ">" THEN GT
  ELSE IF c = "\"" THEN QUOT ELSE <<c>>

escaped(s) == Cat([i \in 1..Len(s) |-> escapeChar(s[i])])

(***************************************************************************)
(* Properties.                                                             *)
(***************************************************************************)

\* C1: the string transform returns never contains three or more
\* consecutive newline characters.
C1_NewlineCeiling == done => ~hasTripleNewline(result)

\* C2: the non-whitespace characters of every text node of the parsed tree
\* appear in the output of transform, in document order.
C2_ContentPreserved ==
  rewritten => isSubsequence(textChars(dom.childNodes), result)

\* C3: every tag that can be read in the output of transform, opening or
\* closing, has a name of the target vocabulary.
C3_VocabularyClosure == done => tagNames(result) \subseteq TELEGRAM_ALLOWED_TAGS

\* the only top-level node of the parsed tree, when it is an element
soleElement == dom.childNodes[1]

hasSoleElement ==
  rewritten /\ Len(dom.childNodes) = 1 /\ dom.childNodes[1].nodeType = 1

\* the names of the attributes of element that its tag's allow-list admits,
\* in source order
allowedNames(element) ==
  LET names == [i \in 1..Len(element.attributes) |-> element.attributes[i].name]
  IN SelectSeq(names, LAMBDA n : n \in TELEGRAM_ALLOWED_ATTRIBUTES(element.tagName))

\* the element is written as a tag of its own (a span only with the spoiler class)
isKept(element) ==
  /\ element.tagName \in TELEGRAM_ALLOWED_TAGS
  /\ element.tagName = T_span =>
       getAttribute(element, N_class) = [nodeType |-> 2, value |-> TG_SPOILER_CLASS]

\* C4: the opening tag written for a kept element carries exactly the
\* attributes of the element whose names are in the tag's allow-list, in
\* source order; no attribute value adds an attribute to the tag.
C4_AllowListedAttributes ==
  (hasSoleElement /\ isKept(soleElement)) =>
    firstTagAttrNames(result) = allowedNames(soleElement)

\* C5: transform never raises to its caller, and when parsing yields no tree
\* or a step raises it returns the sanitizer's escape of the original input,
\* never a partial rewriting.
C5_TotalWithFallback ==
  /\ ~done => (returnsEmpty \/ returnsPlain \/ parses \/ inLoop \/ pastLoop)
  /\ (done /\ failed) => result = escaped(html)

\* C5 witness: a step raised after part of the output had been assembled.
C5_Witness ==
  done /\ failed /\ output # <<>> /\ result = escaped(html) /\ result # output
  /\ html[1] = SP

\* C6, as claimed: an input without angle brackets is returned escaped
\* character by character, with all whitespace untouched, whitespace-only
\* input included.
C6_PlainEscapedUntouched ==
  (done /\ ~includes(html, "<") /\ ~includes(html, ">")) => result = escaped(html)

\* C6, amended: an input without angle brackets that has a non-whitespace
\* character is returned escaped character by character with its whitespace
\* untouched; an empty or whitespace-only input is returned as the empty string.
C6_PlainEscapedOrEmpty ==
  (done /\ ~includes(html, "<") /\ ~includes(html, ">")) =>
    result = IF Range(html) \subseteq Whitespace THEN <<>> ELSE escaped(html)

\* C6 witness: padded plain text with an ampersand has been escaped.
C6_Witness ==
  done /\ html = <<SP, "&", NL>> /\ result = <<SP>> \o AMP \o <<NL>>

\* C7, as claimed: a text node is normalized in quote mode exactly when it
\* has a blockquote ancestor at any depth.
C7_QuoteInherited ==
  \A v \in visited :
    v.out = IF v.inQuote THEN normalizeQuote(v.text) ELSE normalizeFlow(v.text)

\* C7, amended: a text node is normalized in quote mode, keeping its
\* newlines, exactly when its parent element is a blockquote; every other
\* text node, deeper descendants of a blockquote included, is normalized in
\* flow mode and keeps no newline.
C7_QuoteParentOnly ==
  \A v \in visited :
    /\ v.out = IF v.parent = T_blockquote THEN normalizeQuote(v.text)
               ELSE normalizeFlow(v.text)
    /\ includes(v.out, NL) <=> (v.parent = T_blockquote /\ includes(v.text, NL))

\* C7 witness: a text with a newline below an inline child of a blockquote
\* has been normalized in flow mode.
C7_Witness ==
  /\ rewritten
  /\ \E v \in visited :
       /\ v.inQuote /\ v.parent = T_i /\ includes(v.text, NL)
       /\ v.out = normalizeFlow(v.text) /\ ~includes(v.out, NL)

\* the output for <a href="v">t</a> when the href value is written as w
linkWith(w) ==
  <<"<", "a", " ">> \o N_href \o <<"=", "\"">> \o w \o <<"\"", ">", "t", "<", "/", "a", ">">>

hasScheme(v) == startsWith(v, HTTP) \/ startsWith(v, HTTPS) \/ startsWith(v, TG)

isLink == hasSoleElement /\ soleElement.tagName = T_a /\ getAttribute(soleElement, N_href) # Null

hrefOf == getAttribute(soleElement, N_href).value

\* C8, as claimed: an href that begins with http://, https:// or tg:// is
\* written unchanged and every other href, the empty one included, is
\* written with https:// in front.
C8_HrefPrefixed ==
  isLink => result = linkWith(IF hasScheme(hrefOf) THEN hrefOf ELSE HTTPS \o hrefOf)

\* C8, amended: an href that begins with http://, https:// or tg://, and the
\* empty href, are written unchanged; every other href is written with
\* https:// in front and is otherwise unchanged.
C8_HrefPrefixedUnlessEmpty ==
  isLink =>
    result = linkWith(IF hasScheme(hrefOf) \/ hrefOf = <<>> THEN hrefOf
                      ELSE HTTPS \o hrefOf)

\* C8 witness: an href whose scheme differs in letter case has been prefixed.
C8_Witness ==
  /\ isLink
  /\ hrefOf = <<"H", "t", "t", "p", ":", "/", "/", "x">>
  /\ result = linkWith(HTTPS \o hrefOf)

\* every element of the forest is a tag of the target dialect with only
\* allow-listed attributes, and no text node holds an angle bracket
RECURSIVE isDialect(_)
isDialect(forest) ==
  \A i \in 1..Len(forest) :
    LET n == forest[i]
    IN IF n.nodeType = 3
       THEN ~includes(n.textContent, "<") /\ ~includes(n.textContent, ">")
       ELSE /\ isKept(n)
            /\ allowedNames(n) = [k \in 1..Len(n.attributes) |-> n.attributes[k].name]
            /\ isDialect(n.childNodes)

\* the input is already valid target-dialect markup with normalized spacing
isCompliant ==
  /\ isDialect(dom.childNodes)
  /\ html = trim(html)
  /\ ~hasTripleNewline(html)

\* C9: transform returns an already-compliant input unchanged, also when it
\* holds newlines between inline tags, a pre block with line breaks, or text
\* directly after a closing blockquote tag.
C9_IdempotentOnCompliant == (rewritten /\ isCompliant) => result = html

\* the positions of s where an angle-bracket run that is no tag starts: a
\* "<" followed by a digit
strayOpen(s) == {i \in 1..(Len(s) - 1) : s[i] = "<" /\ s[i + 1] \in Digits}

\* C10: when the input holds an angle-bracket run that is no legitimate tag,
\* such as <1>, and the parser delivers it as text, the output holds its
\* interior text and neither of its two bracket characters.
C10_StrayBracketsStripped ==
  (rewritten /\ strayOpen(html) # {}) =>
    /\ strayOpen(result) = {}
    /\ \A i \in 1..Len(result) : result[i] = ">" => (i > 1 /\ result[i - 1] \notin Digits)
    /\ isSubsequence(SelectSeq(html, LAMBDA c : c \in Digits), result)

\* the elements the loop of processHTML has rewritten so far, at every depth
emitted ==
  IF dom = Null THEN {}
  ELSE UNION {elementVisits(dom.childNodes[i], dom.tagName) : i \in 1..(idx - 1)}

SPOILER_OPEN == <<"<", "t", "g", "-", "s", "p", "o", "i", "l", "e", "r", ">">>

SPOILER_CLOSE == <<"<", "/", "t", "g", "-", "s", "p", "o", "i", "l", "e", "r", ">">>

\* the canonical spoiler tag around the trimmed rewriting of the children
asSpoiler(element) == SPOILER_OPEN \o trim(childContent(element)) \o SPOILER_CLOSE

\* C11: every spoiler element, whatever its attributes and its ancestors, is
\* rewritten to <tg-spoiler>, the trimmed rewriting of its children and
\* </tg-spoiler>, with no attribute and nothing before or after; when it is
\* the whole input, that string is what transform returns.
C11_SpoilerRewritten ==
  /\ \A v \in emitted : v.element.tagName = T_spoiler => v.out = asSpoiler(v.element)
  /\ (hasSoleElement /\ soleElement.tagName = T_spoiler) => result = asSpoiler(soleElement)

\* C11 witness: a spoiler with attributes, nested in a spoiler and holding
\* padded text, has been rewritten.
C11_Witness ==
  /\ rewritten
  /\ \E v \in emitted :
       /\ v.element.tagName = T_spoiler /\ v.parent = T_spoiler
       /\ v.element.attributes # <<>>
       /\ v.element.childNodes = <<Text(<<SP, "a">>)>>
       /\ v.out = SPOILER_OPEN \o <<"a">> \o SPOILER_CLOSE

SPAN_SPOILER_OPEN ==
  <<"<", "s", "p", "a", "n", " ", "c", "l", "a", "s", "s", "=", "\"",
    "t", "g", "-", "s", "p", "o", "i", "l", "e", "r", "\"", ">">>

SPAN_CLOSE == <<"<", "/", "s", "p", "a", "n", ">">>

hasSpoilerClass(element) ==
  \E i \in 1..Len(element.attributes) :
    element.attributes[i] = Attr(N_class, TG_SPOILER_CLASS)

\* what the claim says a span is rewritten to
asSpan(element) ==
  IF hasSpoilerClass(element)
  THEN SPAN_SPOILER_OPEN \o trim(childContent(element)) \o SPAN_CLOSE
  ELSE trim(childContent(element))

\* C12: a span is written as <span class="tg-spoiler">, with no other
\* attribute, exactly when its class value is exactly tg-spoiler; with any
\* other class value, one that holds tg-spoiler among other tokens included,
\* or without a class, only the rewriting of its children is written.
C12_SpanKeptIffSpoilerClass ==
  /\ \A v \in emitted : v.element.tagName = T_span => v.out = asSpan(v.element)
  /\ (hasSoleElement /\ soleElement.tagName = T_span) => result = asSpan(soleElement)

\* C12 witness: a span whose class holds tg-spoiler and another token has
\* been dissolved, and a span with exactly that class and an id has been kept.
C12_Witness ==
  /\ rewritten
  /\ \E v \in emitted :
       /\ v.element.tagName = T_span
       /\ getAttribute(v.element, N_class) # Null
       /\ getAttribute(v.element, N_class).value = TG_SPOILER_CLASS \o <<SP, "c">>
       /\ v.element.childNodes # <<>>
       /\ v.out = trim(childContent(v.element))
  /\ \E v \in emitted :
       /\ v.element.tagName = T_span
       /\ Len(v.element.attributes) = 2
       /\ v.out = SPAN_SPOILER_OPEN \o <<"a">> \o SPAN_CLOSE

\* the positions of s where the string w occurs
occurrences(s, w) ==
  {i \in 1..(Len(s) - Len(w) + 1) : SubSeq(s, i, i + Len(w) - 1) = w}

\* what the claim says a heading with content c is written as
asHeading(tagName, c) ==
  IF tagName = T_h1
  THEN <<"<", "b", ">", "<", "u", ">">> \o c \o <<"<", "/", "u", ">", "<", "/", "b", ">">>
  ELSE <<"<", "b", ">">> \o c \o <<"<", "/", "b", ">">>

BOLD_CLOSE == <<"<", "/", "b", ">">>

\* C13: every h1 is written as <b><u>c</u></b> and every h2..h6 as <b>c</b>;
\* in the returned string a heading that is followed by further content is
\* followed by exactly two newlines and then that content, and a heading
\* with nothing after it ends the string.  (No input of the family holds a b
\* element, so every </b> of the output closes a heading.)
C13_HeadingThenDoubleNewline ==
  /\ \A v \in emitted :
       v.element.tagName \in Headings =>
         v.out = asHeading(v.element.tagName, trim(childContent(v.element))) \o <<NL, NL>>
  /\ rewritten =>
       \A i \in occurrences(result, BOLD_CLOSE) :
         LET j == i + Len(BOLD_CLOSE)
         IN \/ j > Len(result)
            \/ /\ j + 2 <= Len(result)
               /\ result[j] = NL /\ result[j + 1] = NL
               /\ result[j + 2] \notin Whitespace

JoinWith(ss, sep) == Cat([i \in 1..Len(ss) |-> IF i = 1 THEN ss[i] ELSE sep \o ss[i]])

Blocks == Headings \cup {T_div, T_p, T_section, T_article, T_header, T_footer}

isBlock(node) == node.nodeType = 1 /\ node.tagName \in Blocks

\* the non-empty contents of the blocks of a forest, innermost blocks first
\* in document order, each as it is written (a heading in its bold wrapper)
RECURSIVE blockContents(_)
blockContents(forest) ==
  Cat([i \in 1..Len(forest) |->
         LET n == forest[i]
         IN IF ~isBlock(n) THEN <<>>
            ELSE IF \E k \in 1..Len(n.childNodes) : isBlock(n.childNodes[k])
                 THEN blockContents(n.childNodes)
            ELSE IF trim(childContent(n)) = <<>> THEN <<>>
            ELSE IF n.tagName \in Headings
                 THEN <<asHeading(n.tagName, trim(childContent(n)))>>
            ELSE <<trim(childContent(n))>>])

\* the input is made of blocks and of whitespace between them
isBlockSequence ==
  \A i \in 1..Len(dom.childNodes) :
    \/ isBlock(dom.childNodes[i])
    \/ /\ dom.childNodes[i].nodeType = 3
       /\ Range(dom.childNodes[i].textContent) \subseteq Whitespace

\* C18: the separators of dissolved blocks merge: in the returned string the
\* contents of any two blocks with content that follow one another, at any
\* depth, are separated by exactly two newlines, never none and never more.
C18_BlockSeparatorsMerge ==
  (rewritten /\ isBlockSequence) =>
    result = JoinWith(blockContents(dom.childNodes), <<NL, NL>>)

isItem(node) == node.nodeType = 1 /\ node.tagName = T_li

isList(node) == node.nodeType = 1 /\ node.tagName \in {T_ul, T_ol}

\* the li children of an element, in document order
itemsOf(element) == SelectSeq(element.childNodes, isItem)

\* the bullet marker, a space and the trimmed rewriting of the item's children
bulleted(item) == <<"U+2022", SP>> \o trim(childContent(item))

\* the items of a list container, one per line
bulletLines(element) ==
  JoinWith([i \in 1..Len(itemsOf(element)) |-> bulleted(itemsOf(element)[i])], <<NL>>)

\* C14: a ul or ol with at least one li child is written without a tag of
\* its own as its items in document order, each as the bullet marker, a
\* space and the item's trimmed content, with exactly one newline between
\* consecutive items and none before the first; the list's own separator
\* follows, and is trimmed away when the list is the whole input.
C14_ListAsBulletLines ==
  /\ \A v \in emitted :
       (isList(v.element) /\ itemsOf(v.element) # <<>>) =>
         v.out = bulletLines(v.element) \o <<NL, NL>>
  /\ (hasSoleElement /\ isList(soleElement) /\ itemsOf(soleElement) # <<>>) =>
       result = trim(bulletLines(soleElement))

\* C14 witness: a list of two items with whitespace between them has been
\* written as two bullet lines.
C14_Witness ==
  /\ hasSoleElement /\ isList(soleElement)
  /\ Len(soleElement.childNodes) = 3 /\ Len(itemsOf(soleElement)) = 2
  /\ soleElement.childNodes[2] = Text(<<SP>>)
  /\ result = <<"U+2022", SP, "a", NL, "U+2022", SP, "b">>

\* C15: list items that are not children of a ul or ol are written like the
\* items of a list: each as the bullet marker and its trimmed content
\* followed by a single newline, so that consecutive items stand on
\* separate lines, one newline apart.
C15_BareItemsOnLines ==
  (rewritten /\ dom.childNodes # <<>> /\ \A i \in 1..Len(dom.childNodes) : isItem(dom.childNodes[i])) =>
    result = trim(Cat([i \in 1..Len(dom.childNodes) |-> bulleted(dom.childNodes[i]) \o <<NL>>]))

QUOTE_OPEN == <<"<", "b", "l", "o", "c", "k", "q", "u", "o", "t", "e", ">">>

QUOTE_OPEN_EXPANDABLE ==
  <<"<", "b", "l", "o", "c", "k", "q", "u", "o", "t", "e", " ",
    "e", "x", "p", "a", "n", "d", "a", "b", "l", "e", "=", "\"", "\"", ">">>

QUOTE_CLOSE == <<"<", "/", "b", "l", "o", "c", "k", "q", "u", "o", "t", "e", ">">>

isQuote == hasSoleElement /\ soleElement.tagName = T_blockquote

\* C16: a blockquote with an expandable attribute, whatever its value, is
\* written with the opening tag <blockquote expandable="">, the source value
\* never appearing; a blockquote without it is written as <blockquote>, and
\* none of its other attributes is written.
C16_ExpandableEmptied ==
  isQuote =>
    result = (IF getAttribute(soleElement, N_expandable) # Null
              THEN QUOTE_OPEN_EXPANDABLE ELSE QUOTE_OPEN)
             \o trim(childContent(soleElement)) \o QUOTE_CLOSE

\* C16 witness: a blockquote with expandable="1" and an id has been written
\* with the empty value.
C16_Witness ==
  /\ isQuote
  /\ soleElement.attributes = <<Attr(N_id, <<"y">>), Attr(N_expandable, <<"1">>)>>
  /\ result = QUOTE_OPEN_EXPANDABLE \o <<"t">> \o QUOTE_CLOSE

\* C17: in the returned string every </blockquote> that is followed by
\* further content (and not by the closing tag of an enclosing element) is
\* followed by exactly one newline and then the content: no blank line and
\* no space separates them.
C17_QuoteThenSingleNewline ==
  rewritten =>
    \A i \in occurrences(result, QUOTE_CLOSE) :
      LET j == i + Len(QUOTE_CLOSE)
      IN \/ j > Len(result)
         \/ j < Len(result) /\ result[j] = "<" /\ result[j + 1] = "/"
         \/ j < Len(result) /\ result[j] = NL /\ result[j + 1] \notin Whitespace
\* the rendered content of the blockquote that is the whole input
quoteContent == SubSeq(result, Len(QUOTE_OPEN) + 1, Len(result) - Len(QUOTE_CLOSE))

\* C19: in the rendered content of a blockquote every space or tab stands
\* between two characters that are no whitespace, so that no line begins or
\* ends with one and no run is longer than one, and the content neither
\* begins nor ends with a newline; also when the line boundary comes from a
\* br element.
C19_QuoteLinesTrimmed ==
  (isQuote /\ soleElement.attributes = <<>>) =>
    /\ \A i \in 1..Len(quoteContent) :
         quoteContent[i] \in Horizontal =>
           /\ 1 < i /\ i < Len(quoteContent)
           /\ quoteContent[i - 1] \notin Whitespace
           /\ quoteContent[i + 1] \notin Whitespace
    /\ quoteContent # <<>> =>
         quoteContent[1] # NL /\ quoteContent[Len(quoteContent)] # NL
InlineTags == {T_b, T_strong, T_i, T_em, T_u, T_ins, T_s, T_strike, T_del, T_code}

\* the forest holds text and kept inline tags without attributes only
RECURSIVE isInlineOnly(_)
isInlineOnly(forest) ==
  \A i \in 1..Len(forest) :
    \/ forest[i].nodeType = 3
    \/ /\ forest[i].nodeType = 1
       /\ forest[i].tagName \in InlineTags
       /\ forest[i].attributes = <<>>
       /\ isInlineOnly(forest[i].childNodes)

\* the forest written with every whitespace run of every text node as one
\* space and every inline tag around the writing of its children
RECURSIVE flowWritten(_)
flowWritten(forest) ==
  Cat([i \in 1..Len(forest) |->
         IF forest[i].nodeType = 3
         THEN collapseRuns(forest[i].textContent, Whitespace, SP)
         ELSE <<"<">> \o forest[i].tagName \o <<">">>
              \o flowWritten(forest[i].childNodes)
              \o <<"<", "/">> \o forest[i].tagName \o <<">">>])

\* C20: in flow mode every maximal whitespace run of a text node becomes one
\* space, and where no structural separator is written (text and kept inline
\* tags only) each of these spaces is in the returned string, a space just
\* inside the boundary of an inline tag included; only the two ends of the
\* whole output are trimmed.
C20_FlowSpacesSurvive ==
  /\ \A v \in visited :
       v.parent # T_blockquote => v.out = collapseRuns(v.text, Whitespace, SP)
  /\ (rewritten /\ isInlineOnly(dom.childNodes)) =>
       result = trim(flowWritten(dom.childNodes))
\* the number of line breaks of s
lineBreaks(s) == Len(SelectSeq(s, LAMBDA c : c = NL))

\* every child of the element is a text node
hasTextOnly(element) ==
  \A i \in 1..Len(element.childNodes) : element.childNodes[i].nodeType = 3

\* the text children of an element, each whitespace run as one space
collapsedText(element) ==
  Cat([i \in 1..Len(element.childNodes) |->
         collapseRuns(element.childNodes[i].textContent, Whitespace, SP)])

\* C21: within a blockquote, text that is a direct child of the blockquote
\* keeps its line breaks (here no more than two follow one another), while
\* text inside an inline element of the blockquote has every whitespace run,
\* newlines included, collapsed to one space, and the inline element is
\* written around its trimmed content.
C21_QuoteNestedTextFlows ==
  /\ \A t \in visited :
       /\ (t.parent = T_blockquote
           /\ ~hasTripleNewline(SelectSeq(t.text, LAMBDA c : c \notin Horizontal))) =>
            lineBreaks(t.out) = lineBreaks(t.text)
       /\ (t.inQuote /\ t.parent \in InlineTags) =>
            t.out = collapseRuns(t.text, Whitespace, SP) /\ lineBreaks(t.out) = 0
  /\ \A v \in emitted :
       (v.parent = T_blockquote /\ v.element.tagName \in InlineTags
        /\ hasTextOnly(v.element)) =>
         v.out = <<"<">> \o v.element.tagName \o <<">">>
                 \o trim(collapsedText(v.element))
                 \o <<"<", "/">> \o v.element.tagName \o <<">">>

\* C21 witness: a quote that holds text with a line break and an i element
\* with padded text over two lines has been rewritten.
C21_Witness ==
  /\ isQuote
  /\ soleElement.childNodes =
       <<Text(<<"a", NL, "b">>),
         Element(T_i, <<>>, <<Text(<<SP, "a", NL, SP, "b", SP>>)>>)>>
  /\ result = QUOTE_OPEN \o <<"a", NL, "b", "<", "i", ">", "a", SP, "b", "<", "/", "i", ">">>
               \o QUOTE_CLOSE
\* the number of nodes of the tree below and including node
RECURSIVE nodeCount(_)
nodeCount(node) ==
  IF node.nodeType # 1 THEN 1
  ELSE 1 + Sum([i \in 1..Len(node.childNodes) |-> nodeCount(node.childNodes[i])],
               Len(node.childNodes))

\* the calls of processNode made so far by the loop of processHTML
callsSoFar == Sum([i \in 1..(idx - 1) |-> processCalls(dom.childNodes[i])], idx - 1)

\* the nodes of the subtrees the loop of processHTML has passed
nodesSoFar == Sum([i \in 1..(idx - 1) |-> nodeCount(dom.childNodes[i])], idx - 1)

\* C22: during one call of transform every node of the parsed tree is
\* processed at most once: the number of calls of processNode equals the
\* number of nodes passed, also for the li children of ul and ol containers
\* and their subtrees, lists nested in list items included.
C22_EachNodeVisitedOnce == dom # Null => callsSoFar = nodesSoFar
Preformatted == {T_pre, T_code}

\* a node written without preformatted treatment: text with every whitespace
\* run as one space, an element as its tag around its trimmed content
RECURSIVE flowTrimmed(_)
flowTrimmed(node) ==
  IF node.nodeType = 3 THEN collapseRuns(node.textContent, Whitespace, SP)
  ELSE <<"<">> \o node.tagName \o <<">">>
       \o trim(Cat([i \in 1..Len(node.childNodes) |-> flowTrimmed(node.childNodes[i])]))
       \o <<"<", "/">> \o node.tagName \o <<">">>

\* the element and everything below it is text, pre or code, without attributes
RECURSIVE isPreformattedOnly(_)
isPreformattedOnly(node) ==
  \/ node.nodeType = 3
  \/ /\ node.nodeType = 1
     /\ node.tagName \in Preformatted
     /\ node.attributes = <<>>
     /\ \A i \in 1..Len(node.childNodes) : isPreformattedOnly(node.childNodes[i])

\* C24: text inside a pre or code element gets no preformatted treatment:
\* every maximal whitespace run of it, newlines and indentation included,
\* becomes one space, the element's content is trimmed, and what is written
\* between the opening and the closing tag holds no newline from its text.
C24_PreTextFlows ==
  /\ \A t \in visited :
       t.parent \in Preformatted =>
         t.out = collapseRuns(t.text, Whitespace, SP) /\ lineBreaks(t.out) = 0
  /\ \A v \in emitted :
       (v.element.tagName \in Preformatted /\ isPreformattedOnly(v.element)) =>
         v.out = flowTrimmed(v.element) /\ lineBreaks(v.out) = 0
  /\ (hasSoleElement /\ isPreformattedOnly(soleElement)) =>
       result = flowTrimmed(soleElement)

\* C24 witness: a code element inside a pre, holding an indented second
\* line, has been written on one line.
C24_Witness ==
  /\ hasSoleElement
  /\ soleElement =
       Element(T_pre, <<>>, <<Element(T_code, <<>>, <<Text(<<"a", NL, SP, SP, "b">>)>>)>>)
  /\ result = <<"<", "p", "r", "e", ">", "<", "c", "o", "d", "e", ">", "a", SP, "b",
                "<", "/", "c", "o", "d", "e", ">", "<", "/", "p", "r", "e", ">">>
====
